---------------------------- MODULE Spec2Model ----------------------------
(***************************************************************************)
(* A model of the contour-to-solid geometry pipeline of rhino-defect-synth *)
(* (src/utils_loc/cube_modeling.py, src/utils_loc/crack_modeling.py,       *)
(* src/utils_loc/pipeline.py).                                             *)
(*                                                                         *)
(* The Rhino document is a set of object records.  Calls into the          *)
(* geometry host (rs.*, Brep.Split, AreaMassProperties) are modelled by    *)
(* their effect on that set; where the host may fail, the outcome is an    *)
(* input of the action, chosen with \E.                                    *)
(*                                                                         *)
(* Lengths are integers (millimetres).  The code divides CUBE_LENGTH by 2  *)
(* in floating point, which is exact; the model only draws even cube       *)
(* lengths, so that the integer division is exact as well.                 *)
(***************************************************************************)
EXTENDS Integers, Sequences, FiniteSets, TLC

VARIABLES
    pc,            \* position of the running entry point
    CUBE_LENGTH,   \* cube_modeling.CUBE_LENGTH, the module-level global
    doc,           \* the document: the set of existing objects
    nextId,        \* the next fresh object id the host hands out
    layers,        \* the names of the layers that exist in the document
    currentLayer,  \* the layer new objects are created on
    call,          \* the arguments of the call under examination
    ret,           \* its return value
    host,          \* the input of the last step: the record read, the host's answers
    err,           \* the exception that ended the run, or "none"
    log,           \* the messages printed so far
    faces,         \* create_cube: the dict faces, in insertion order
    budget,        \* the number of groups the records not yet read may still hold
    fi,            \* create_cube: the position of the face loop in faces
    fam,           \* create_cube: the families read for the current face
    gi,            \* create_cube: the group loop's index i
    cutters,       \* create_cube: the cutters of the current face
    crack_items,   \* create_cube: the crack items of the current face
    face_cracks,   \* create_cube: the dict face_cracks, in insertion order
    xi,            \* create_model: the position of the item loops in the items
    calls          \* the calls of create_crack made so far

\* the variables of create_model and create_cube
pipeVars == <<faces, budget, fi, fam, gi, cutters, crack_items, face_cracks, xi, calls>>

vars == <<pc, CUBE_LENGTH, doc, nextId, layers, currentLayer, call, ret, host, err, log,
          pipeVars>>

-----------------------------------------------------------------------------
(* Bounds of the model *)

\* the longest point list handed to map_2d_to_cube_face on its own
MaxPts == 2

\* the largest coordinate of a centered 2D point (they range over -MaxCoord..MaxCoord)
MaxCoord == 1

-----------------------------------------------------------------------------
(* Vectors *)

VectorScale(v, k) == <<v[1] * k, v[2] * k, v[3] * k>>

VectorReverse(v) == <<-v[1], -v[2], -v[3]>>

PointAdd(p, v) == <<p[1] + v[1], p[2] + v[2], p[3] + v[3]>>

-----------------------------------------------------------------------------
(* FaceFrame: cube_modeling.py *)

FaceDirs == {"+x", "-x", "+y", "-y", "+z", "-z"}

\* the labels a caller may pass, and what face.strip().lower() makes of each
RawLabels == FaceDirs \cup {" +X", "-Z ", "px", "top", ""}

StripLower(label) ==
    CASE label = " +X" -> "+x"
      [] label = "-Z " -> "-z"
      [] OTHER -> label

\* the cube lengths in effect: the initial 500 and values derived from records
CubeLengths == {20, 500}

center_2d_points(points_2d, C) ==
    [i \in 1..Len(points_2d) |-> <<points_2d[i][1] - C \div 2, points_2d[i][2] - C \div 2>>]

\* the loop body below with the signs of the two x faces exchanged
MapPointXSwapped(face, u, v, C) ==
    CASE face = "+x" -> <<-(C \div 2), u, v>>
      [] face = "-x" -> << C \div 2, u, v>>
      [] face = "+y" -> <<u,  C \div 2, v>>
      [] face = "-y" -> <<u, -(C \div 2), v>>
      [] face = "+z" -> <<u, v,  C \div 2>>
      [] face = "-z" -> <<u, v, -(C \div 2)>>

\* one iteration of the loop of map_2d_to_cube_face: the point appended for (u, v)
MapPoint(face, u, v, C) ==
    CASE face = "+x" -> << C \div 2, u, v>>
      [] face = "-x" -> <<-(C \div 2), u, v>>
      [] face = "+y" -> <<u,  C \div 2, v>>
      [] face = "-y" -> <<u, -(C \div 2), v>>
      [] face = "+z" -> <<u, v,  C \div 2>>
      [] face = "-z" -> <<u, v, -(C \div 2)>>

\* the raise sits inside the loop: an unknown label fails only when there is a point
map_2d_to_cube_face(points_2d_mm, face, C) ==
    LET f == StripLower(face) IN
    IF f \notin FaceDirs /\ Len(points_2d_mm) > 0
    THEN [err |-> "ValueError", val |-> <<>>]
    ELSE [err |-> "none",
          val |-> [i \in 1..Len(points_2d_mm) |->
                      MapPoint(f, points_2d_mm[i][1], points_2d_mm[i][2], C)]]

face_dir_normal(face_dir) ==
    CASE face_dir = "+x" -> << 1, 0, 0>>
      [] face_dir = "-x" -> <<-1, 0, 0>>
      [] face_dir = "+y" -> <<0,  1, 0>>
      [] face_dir = "-y" -> <<0, -1, 0>>
      [] face_dir = "+z" -> <<0, 0,  1>>
      [] face_dir = "-z" -> <<0, 0, -1>>

\* the table of create_model with the entry of +y pointing outward
inward_dirs_y_outward(face) ==
    CASE face = "+x" -> <<-1, 0, 0>>
      [] face = "-x" -> << 1, 0, 0>>
      [] face = "+y" -> <<0,  1, 0>>
      [] face = "-y" -> <<0,  1, 0>>
      [] face = "+z" -> <<0, 0, -1>>
      [] face = "-z" -> <<0, 0,  1>>

\* pipeline.create_model: the inward_dirs table
inward_dirs(face) ==
    CASE face = "+x" -> <<-1, 0, 0>>
      [] face = "-x" -> << 1, 0, 0>>
      [] face = "+y" -> <<0, -1, 0>>
      [] face = "-y" -> <<0,  1, 0>>
      [] face = "+z" -> <<0, 0, -1>>
      [] face = "-z" -> <<0, 0,  1>>

\* the world axis map_2d_to_cube_face holds fixed on a face: the one coordinate
\* that does not depend on the point
FixedAxis(face) ==
    CHOOSE k \in 1..3 :
        \A u, v \in {0, 1} : MapPoint(face, u, v, 500)[k] = MapPoint(face, 0, 0, 500)[k]

\* a 3D point with coordinate k dropped
DropAxis(p, k) ==
    CASE k = 1 -> <<p[2], p[3]>>
      [] k = 2 -> <<p[1], p[3]>>
      [] k = 3 -> <<p[1], p[2]>>

Coords == -MaxCoord..MaxCoord

Points2D == Coords \X Coords

PointLists == UNION {[1..n -> Points2D] : n \in 0..MaxPts}

-----------------------------------------------------------------------------
(* The document *)

\* what a call returns instead of an object id (Python's None)
None == 0

ZeroVec == <<0, 0, 0>>

\* An object of the document.  kind is "curve" or "brep"; role says what made it;
\* pts are a curve's points, off its translation away from the face plane, ext the
\* extrusion vector of a solid wall, area the area of a planar surface.
Obj(id, kind, role, face, grp, layer, pts, off, ext, area) ==
    [id |-> id, kind |-> kind, role |-> role, face |-> face, grp |-> grp,
     layer |-> layer, hidden |-> FALSE, pts |-> pts, off |-> off, ext |-> ext,
     area |-> area]

Ids(d) == {o.id : o \in d}

\* rs.IsObject
IsObject(d, id) == id \in Ids(d)

Lookup(d, id) == CHOOSE o \in d : o.id = id

\* rs.coercebrep: the object's Brep, if it exists and is a surface
IsBrep(d, id) == \E o \in d : o.id = id /\ o.kind = "brep"

\* rs.IsPolyline
IsPolyline(d, id) == \E o \in d : o.id = id /\ o.kind = "curve"

\* rs.DeleteObject: deleting an id that does not exist does nothing
DeleteObject(d, id) == {o \in d : o.id # id}

DeleteAll(d, ids) == {o \in d : o.id \notin ids}

\* rs.HideObject / rs.ShowObject
SetHidden(d, id, h) == {IF o.id = id THEN [o EXCEPT !.hidden = h] ELSE o : o \in d}

\* rs.ObjectLayer(id, layer)
SetLayer(d, ids, layer) == {IF o.id \in ids THEN [o EXCEPT !.layer = layer] ELSE o : o \in d}

RECURSIVE SumSeq(_)
SumSeq(s) == IF s = <<>> THEN 0 ELSE Head(s) + SumSeq(Tail(s))

RECURSIVE MaxSeq(_)
MaxSeq(s) == IF Len(s) = 1 THEN s[1]
             ELSE LET m == MaxSeq(Tail(s)) IN IF Head(s) >= m THEN Head(s) ELSE m

\* list.index(x): the first position holding x
IndexOf(s, x) == CHOOSE i \in 1..Len(s) : s[i] = x /\ \A j \in 1..(i - 1) : s[j] # x

Range(s) == {s[i] : i \in 1..Len(s)}

-----------------------------------------------------------------------------
(* RegionSplitter: cube_modeling.split_face_and_keep_outer *)

\* What Brep.Split may answer for a face of area F and interior, disjoint cutters
\* of the given areas: nothing, or the outer remainder and one inner piece per
\* cutter, the remainder first or last.
HostSplitAnswers(F, cutter_areas) ==
    LET outer == F - SumSeq(cutter_areas) IN
    {<<>>, <<outer>> \o cutter_areas, cutter_areas \o <<outer>>}

\* the last piece of maximum area instead of the first
PickLastMax(areas) ==
    CHOOSE i \in 1..Len(areas) :
        areas[i] = MaxSeq(areas) /\ \A j \in (i + 1)..Len(areas) : areas[j] # MaxSeq(areas)

\* the piece of minimum area
PickMin(areas) ==
    CHOOSE i \in 1..Len(areas) : \A j \in 1..Len(areas) : areas[i] <= areas[j]

\* areas.index(max(areas))
PickOuter(areas) == IndexOf(areas, MaxSeq(areas))

\* an early return that answers None and deletes the face
ReturnNoCuttersDeleting(d, nid, base_srf_id) ==
    [doc |-> DeleteObject(d, base_srf_id), nextId |-> nid, ret |-> None, log |-> <<>>]

\* "if not cutters: return base_srf_id"
ReturnNoCutters(d, nid, base_srf_id) ==
    [doc |-> d, nextId |-> nid, ret |-> base_srf_id, log |-> <<>>]

\* "if not base_brep: print(...); return base_srf_id"
ReturnBaseInvalid(d, nid, base_srf_id) ==
    [doc |-> d, nextId |-> nid, ret |-> base_srf_id,
     log |-> <<"Base surface is not a valid Brep">>]

\* an early return that answers None and deletes the face, after the messages
ReturnNoValidCuttersDeleting(d, nid, base_srf_id, msgs) ==
    [doc |-> DeleteObject(d, base_srf_id), nextId |-> nid, ret |-> None, log |-> msgs]

\* "if not cutter_breps: print(...); return base_srf_id"
ReturnNoValidCutters(d, nid, base_srf_id, msgs) ==
    [doc |-> d, nextId |-> nid, ret |-> base_srf_id,
     log |-> msgs \o <<"No valid cutter Breps found">>]

\* an empty split result handled like a successful one: the face is deleted
ReturnSplitFailedDeleting(d, nid, base_srf_id, msgs) ==
    [doc |-> DeleteObject(d, base_srf_id), nextId |-> nid, ret |-> None, log |-> msgs]

\* "if not split_breps: print(...); return base_srf_id"
ReturnSplitFailed(d, nid, base_srf_id, msgs) ==
    [doc |-> d, nextId |-> nid, ret |-> base_srf_id,
     log |-> msgs \o <<"Brep.Split failed or produced no pieces">>]

\* the cutters that pass "if not cid: continue" and rs.coercebrep
ValidCutters(d, cutter_list) == SelectSeq(cutter_list, LAMBDA cid : cid # None /\ IsBrep(d, cid))

\* split_breps: the areas of the pieces the host returned, in its order;
\* measurable[i]: whether coercebrep and AreaMassProperties.Compute succeed on piece i.
\* The result: the new document, the next free id, the return value, the messages.
split_face_and_keep_outer(d, nid, layer, base_srf_id, cutter_list, split_breps, measurable) ==
    LET cutter_breps == ValidCutters(d, cutter_list)
        skipped      == SelectSeq(cutter_list, LAMBDA cid : cid # None /\ ~IsBrep(d, cid))
        skip_msgs    == [i \in 1..Len(skipped) |-> "Skipping non-brep cutter"]
    IN
    IF Len(cutter_list) = 0 THEN ReturnNoCutters(d, nid, base_srf_id)
    ELSE IF ~IsBrep(d, base_srf_id) THEN ReturnBaseInvalid(d, nid, base_srf_id)
    ELSE IF Len(cutter_breps) = 0 THEN ReturnNoValidCutters(d, nid, base_srf_id, skip_msgs)
    ELSE IF Len(split_breps) = 0 THEN ReturnSplitFailed(d, nid, base_srf_id, skip_msgs)
    ELSE
        LET base      == Lookup(d, base_srf_id)
            n         == Len(split_breps)
            piece_ids == [i \in 1..n |-> nid + i - 1]
            pieces    == {Obj(piece_ids[i], "brep", "fragment", base.face, 0, layer,
                              <<>>, ZeroVec, ZeroVec, split_breps[i]) : i \in 1..n}
            areas     == [i \in 1..n |-> IF measurable[i] THEN split_breps[i] ELSE 0]
            idx_max   == PickOuter(areas)
            others    == {piece_ids[i] : i \in (1..n) \ {idx_max}}
        IN  [doc    |-> DeleteAll(DeleteObject(d, base_srf_id) \cup pieces, others),
             nextId |-> nid + n,
             ret    |-> piece_ids[idx_max],
             log    |-> skip_msgs]

\* the areas of the surfaces with the given ids, in order
AreasOf(d, ids) == [i \in 1..Len(ids) |-> Lookup(d, ids[i]).area]

\* what the host may answer to base_brep.Split(cutter_breps, tol) in document d
SplitAnswers(d, base_srf_id, cutter_list) ==
    IF ~IsBrep(d, base_srf_id) \/ Len(ValidCutters(d, cutter_list)) = 0 THEN {<<>>}
    ELSE HostSplitAnswers(Lookup(d, base_srf_id).area, AreasOf(d, ValidCutters(d, cutter_list)))

-----------------------------------------------------------------------------
(* ContourIngestor: cube_modeling.read_contour_json *)

\* data.get(key, 1)
GetOr1(data, key) == IF key \in data.keys THEN data[key] ELSE 1

\* data.get(key, 0)
GetOr0(data, key) == IF key \in data.keys THEN data[key] ELSE 0

\* pts_px * pixel_size_mm
ScalePoints(points, k) == [i \in 1..Len(points) |-> <<points[i][1] * k, points[i][2] * k>>]

\* _contour_conversion
contour_conversion(item, pixel_size_mm) ==
    [parent |-> item.parent, points |-> ScalePoints(item.points, pixel_size_mm)]

ConvertList(items, k) == [i \in 1..Len(items) |-> contour_conversion(items[i], k)]

ConvertLists(lists, k) == [i \in 1..Len(lists) |-> ConvertList(lists[i], k)]

NoFamilies ==
    [contours |-> <<>>, base_contours |-> <<>>, erode_contours |-> <<>>,
     diff_contours |-> <<>>, severities |-> <<>>]

\* "float(data.get("width_px", 0) or data.get("height_px", 0))": the width when it
\* is non-zero, else the height
MapPixel(data) ==
    IF GetOr0(data, "width_px") # 0 THEN GetOr0(data, "width_px") ELSE GetOr0(data, "height_px")

\* The result of read_contour_json on the parsed record data, with the global
\* CUBE_LENGTH at C when it is called: the exception raised, the value the call
\* leaves in CUBE_LENGTH, and the families it returns.
read_contour_json(data, C) ==
    LET pixel_size_mm == data.pixel_size_cm * 10
        map_pixel     == MapPixel(data)
        fail(e, c)    == [err |-> e, CUBE_LENGTH |-> c, fam |-> NoFamilies]
        rest          == {"severities", "expanded_contours", "base_contours",
                          "difference_contours"}
    IN
    IF "pixel_size_cm" \notin data.keys
    THEN fail("KeyError: JSON must contain pixel_size_cm", C)
    ELSE IF map_pixel = 0
    THEN fail("KeyError: JSON must contain valid width_px or height_px", C)
    ELSE IF "contours" \notin data.keys
    THEN fail("KeyError: JSON must contain contours", map_pixel * pixel_size_mm)
    ELSE IF ~(rest \subseteq data.keys)
    THEN fail("KeyError", map_pixel * pixel_size_mm)
    ELSE [err |-> "none",
          CUBE_LENGTH |-> map_pixel * pixel_size_mm,
          fam |-> [contours       |-> ConvertLists(data.contours, pixel_size_mm),
                   base_contours  |-> ConvertList(data.base_contours, pixel_size_mm),
                   erode_contours |-> ConvertList(data.expanded_contours, pixel_size_mm),
                   diff_contours  |-> ConvertLists(data.difference_contours, pixel_size_mm),
                   severities     |-> data.severities]]

-----------------------------------------------------------------------------
(* Input records *)

AllKeys ==
    {"pixel_size_cm", "width_px", "height_px", "contours", "base_contours",
     "expanded_contours", "difference_contours", "severities"}

\* polygons in pixel coordinates
Square == <<<<1, 1>>, <<2, 1>>, <<2, 2>>, <<1, 2>>>>

Segment == <<<<1, 1>>, <<2, 1>>>>

Severities == {"CS1", "CS2"}

Contour(parent, points) == [parent |-> parent, points |-> points]

\* the groups a record is made of: a crack with nothing else; two cracks with a
\* nested island, a two-point contour and a difference region; and groups with an
\* empty offset polygon, an empty base polygon, a base polygon of two points, or no
\* crack contour of 3 points
GroupKinds == {"min", "rich", "erode_empty", "base_empty", "base_short", "no_crack"}

RawGroup(kind, sev) ==
    [erode    |-> Contour(-1, IF kind = "erode_empty" THEN <<>> ELSE Square),
     base     |-> Contour(-1, CASE kind = "base_empty" -> <<>>
                                [] kind = "base_short" -> Segment
                                [] OTHER -> Square),
     diffs    |-> IF kind \in {"min", "erode_empty"} THEN <<>> ELSE <<Contour(-1, Square)>>,
     contours |-> CASE kind = "min" -> <<Contour(-1, Square)>>
                    [] kind = "no_crack" -> <<Contour(0, Square), Contour(-1, Segment)>>
                    [] OTHER -> <<Contour(-1, Square), Contour(0, Square), Contour(-1, Square)>>,
     severity |-> sev]

\* every kind of group at severity CS1, and the plain crack at every severity
RawGroups ==
    {RawGroup(k, "CS1") : k \in GroupKinds} \cup {RawGroup("min", sev) : sev \in Severities}

\* the lists of at most n groups: none, any one group, any group followed by a
\* plain crack
GroupLists(n) ==
    {gs \in {<<>>} \cup {<<g>> : g \in RawGroups}
                   \cup {<<g, RawGroup("min", "CS1")>> : g \in RawGroups} : Len(gs) <= n}

\* the families a record may lack the last element of
Lacking == {"none", "contours", "base_contours", "expanded_contours",
            "difference_contours", "severities"}

DropLast(s) == SubSeq(s, 1, Len(s) - 1)

\* a record of the given pixel size and dimensions holding the given groups, with
\* the named family one element short
MkRecord(keys, dims, groups, lack) ==
    LET n      == Len(groups)
        cut(name, s) == IF lack = name THEN DropLast(s) ELSE s
    IN  [keys                |-> keys,
         pixel_size_cm       |-> dims[1],
         width_px            |-> dims[2],
         height_px           |-> dims[3],
         contours            |-> cut("contours", [i \in 1..n |-> groups[i].contours]),
         base_contours       |-> cut("base_contours", [i \in 1..n |-> groups[i].base]),
         expanded_contours   |-> cut("expanded_contours", [i \in 1..n |-> groups[i].erode]),
         difference_contours |-> cut("difference_contours", [i \in 1..n |-> groups[i].diffs]),
         severities          |-> cut("severities", [i \in 1..n |-> groups[i].severity])]

\* <<pixel_size_cm, width_px, height_px>>: a map that gives the cube the size of
\* the faces (500 mm), and a smaller one
RecordDims == {<<1, 50, 50>>, <<1, 2, 2>>}

\* the records with at most n groups: the well-formed ones, the records with one
\* family a group short, and a record without its pixel size
Records(n) ==
    {MkRecord(AllKeys, d, gs, "none") : d \in RecordDims, gs \in GroupLists(n)}
    \cup {MkRecord(AllKeys, <<1, 50, 50>>, gs, lack) :
              gs \in {g \in GroupLists(n) : g = <<RawGroup("min", "CS1")>>},
              lack \in Lacking \ {"none"}}
    \cup {MkRecord(AllKeys \ {"pixel_size_cm"}, <<1, 50, 50>>, <<>>, "none")}

-----------------------------------------------------------------------------
(* CubeAssembler: one iteration of the group loop of cube_modeling.create_cube *)

\* "crack_{}".format(severity)
LayerName(severity) ==
    CASE severity = "CS1" -> "crack_CS1"
      [] severity = "CS2" -> "crack_CS2"

\* "if close_curve and pts[0] != pts[-1]: pts.append(pts[0])"
ClosePoints(pts) == IF pts[1] # pts[Len(pts)] THEN Append(pts, pts[1]) ELSE pts

\* center_2d_points, then map_2d_to_cube_face
Embed(points, face_dir, C) == map_2d_to_cube_face(center_2d_points(points, C), face_dir, C).val

\* twice the signed area enclosed by a closed planar point list on the given face
RECURSIVE Shoelace(_, _)
Shoelace(pts, k) ==
    IF Len(pts) < 2 THEN 0
    ELSE LET a == DropAxis(pts[1], k)
             b == DropAxis(pts[2], k)
         IN  a[1] * b[2] - b[1] * a[2] + Shoelace(Tail(pts), k)

\* the area of the planar surface rs.AddPlanarSrf builds on a closed curve
PlanarArea(pts, face_dir) ==
    LET t == Shoelace(pts, FixedAxis(face_dir)) IN (IF t < 0 THEN -t ELSE t) \div 2

\* add_polygon_curve: the polyline object it adds for a non-empty point list
Polyline(id, role, face_dir, i, layer, points_3d) ==
    Obj(id, "curve", role, face_dir, i, layer, ClosePoints(points_3d), ZeroVec, ZeroVec, 0)

\* the ids at the given positions, in list order, when position j holds id base + j
RECURSIVE IdsInOrder(_, _, _)
IdsInOrder(base, n, keep) ==
    IF n = 0 THEN <<>>
    ELSE IdsInOrder(base, n - 1, keep) \o (IF n \in keep THEN <<base + n>> ELSE <<>>)

\* "if not crack_poly_ids"
HasNoCrack(crack_pos) == crack_pos = {}

\* the exception of "raise ValueError("Layer ... does not exist ...")"
MissingLayerError == "ValueError: layer does not exist"

\* Iteration i of "for i in range(n_bases)" on face face_dir, in document d with
\* nid the next free id, cur the current layer, lays the existing layers and C the
\* value of CUBE_LENGTH; planar_ok: whether rs.AddPlanarSrf builds the offset
\* surface.  The result: the new document, the next free id, the exception raised,
\* what was appended to cutters and crack_items, and the messages.
EmbedGroup(d, nid, cur, lays, C, face_dir, i, fams, planar_ok) ==
    LET erode_pts_3d == Embed(fams.erode_contours[i].points, face_dir, C)
        base_pts_3d  == Embed(fams.base_contours[i].points, face_dir, C)
        diffs        == fams.diff_contours[i]
        cnts         == fams.contours[i]
        nd           == Len(diffs)
        nc           == Len(cnts)
        erode_poly_id == nid
        base_poly_id  == nid + 1
        offset_srf_id == nid + 2 + nd + nc
        layer_name   == LayerName(fams.severities[i])
        diff_pos     == {j \in 1..nd : Len(diffs[j].points) > 0}
        poly_pos     == {j \in 1..nc : Len(cnts[j].points) >= 3}
        crack_pos    == {j \in poly_pos : cnts[j].parent = -1}
        inside_pos   == {j \in poly_pos : cnts[j].parent # -1}
        erode_poly   == Polyline(erode_poly_id, "erode", face_dir, i, cur, erode_pts_3d)
        base_poly    == Polyline(base_poly_id, "base", face_dir, i, cur, base_pts_3d)
        diff_polys   == {Polyline(nid + 1 + j, "diff", face_dir, i, cur,
                                  Embed(diffs[j].points, face_dir, C)) : j \in diff_pos}
        cnt_polys    == {Polyline(nid + 1 + nd + j,
                                  IF j \in crack_pos THEN "crack" ELSE "inside",
                                  face_dir, i, cur,
                                  Embed(cnts[j].points, face_dir, C)) : j \in poly_pos}
        crack_poly_ids    == IdsInOrder(nid + 1 + nd, nc, crack_pos)
        noncrack_poly_ids == IdsInOrder(nid + 1 + nd, nc, inside_pos)
        diff_poly_ids     == IdsInOrder(nid + 1, nd, diff_pos)
        tagged       == SetLayer(d \cup {erode_poly, base_poly} \cup diff_polys \cup cnt_polys,
                                 Range(crack_poly_ids) \cup {erode_poly_id}, layer_name)
        offset_srf   == Obj(offset_srf_id, "brep", "offset_surface", face_dir, i, layer_name,
                            erode_poly.pts, ZeroVec, ZeroVec,
                            PlanarArea(erode_poly.pts, face_dir))
        out(doc2, e, cs, items, msgs) ==
            [doc |-> doc2, nextId |-> nid + 3 + nd + nc, err |-> e, cutters |-> cs,
             crack_items |-> items, log |-> msgs]
    IN
    IF Len(erode_pts_3d) = 0
    THEN out(d, "none", <<>>, <<>>, <<"Skipping empty erode contour">>)
    ELSE IF Len(base_pts_3d) = 0
    THEN out(d \cup {erode_poly}, "none", <<>>, <<>>, <<"Skipping empty base contour">>)
    ELSE IF layer_name \notin lays
    THEN out(d \cup {erode_poly, base_poly} \cup diff_polys, MissingLayerError,
             <<>>, <<>>, <<>>)
    ELSE IF HasNoCrack(crack_pos)
    THEN out(d \cup {erode_poly, base_poly} \cup diff_polys \cup cnt_polys, "none",
             <<>>, <<>>, <<"Skipping empty contour">>)
    ELSE IF ~planar_ok
    THEN out(tagged, "TypeError: 'NoneType' object is not subscriptable", <<>>, <<>>, <<>>)
    ELSE out(tagged \cup {offset_srf}, "none", <<offset_srf_id>>,
             <<[offset_surface |-> offset_srf_id,
                crack_polys    |-> crack_poly_ids,
                inside_polys   |-> noncrack_poly_ids,
                base_poly      |-> base_poly_id,
                offset_poly    |-> erode_poly_id,
                diff_polys     |-> diff_poly_ids]>>,
             <<>>)

-----------------------------------------------------------------------------
(* CrackExtruder: crack_modeling.create_crack *)

\* the value of an inward_dir argument that was not supplied
NoDir == <<>>

NoneCreated == [kind |-> "None", loft |-> <<>>, extrusion |-> None]

\* rs.CopyObject(src, vec): a copy with the attributes of src, moved by vec
CopyObject(src, id, role, vec) ==
    [src EXCEPT !.id = id, !.role = role, !.off = PointAdd(src.off, vec),
                !.pts = [k \in 1..Len(src.pts) |-> PointAdd(src.pts[k], vec)]]

\* a surface the host builds on or from a curve: on the current layer
SurfaceOn(curve, id, role, layer, ext) ==
    Obj(id, "brep", role, curve.face, curve.grp, layer, curve.pts, curve.off, ext,
        PlanarArea(curve.pts, curve.face))

\* the far cap built on the start curve itself, not on its copy moved by vec_delta
CapCurveUnmoved(deep, id, vec_delta) == CopyObject(deep, id, "cap_curve", ZeroVec)

\* "rs.CopyObject(deep_poly, vec_delta)": the curve the far cap is built on
CapCurve(deep, id, vec_delta) == CopyObject(deep, id, "cap_curve", vec_delta)

\* cleanup_ids as create_crack builds it (lines 47, 50, 53, 63, 100, 101, 134)
CleanupIds(diff_curve_ids, diff_polys, base_poly, base_bottom_curve, helper_curves, crack_inside_polys, offset_poly) ==
    diff_curve_ids \cup Range(diff_polys) \cup {base_poly, base_bottom_curve}
        \cup helper_curves \cup Range(crack_inside_polys) \cup {offset_poly}

\* targets: the loft surfaces and what the variables extrusion and bottom_cap hold
\* after the loop, the results of its last completed iteration
ExtrusionTargets(loft_ids, extrusion, bottom_cap) ==
    loft_ids \cup ({extrusion, bottom_cap} \ {None})

\* create_crack in document d with nid the next free id, cur the current layer and
\* lays the existing layers; d1 and delta are the two random draws; h is what the
\* host answers: h.dir, what _poly_inward_direction finds (NoDir: nothing);
\* h.base_copy and h.loft, whether the copy of the base curve and the loft
\* succeed; h.crack[j], whether copy, extrusion and cap succeed for crack polygon j.
create_crack(d, nid, cur, lays, crack_polys_arg, crack_inside_polys_arg, base_poly, offset_poly, diff_polys, inward_dir, d1, delta, h) ==
    LET crack_polys        == SelectSeq(crack_polys_arg,
                                        LAMBDA bp : bp # None /\ IsPolyline(d, bp))
        crack_inside_polys == SelectSeq(crack_inside_polys_arg,
                                        LAMBDA sp : sp # None /\ IsPolyline(d, sp))
        direction == IF inward_dir # NoDir THEN inward_dir ELSE h.dir
        d2        == d1 + delta
        vec_d1    == VectorScale(direction, d1)
        vec_delta == VectorScale(direction, d2 - d1)
        nd  == Len(diff_polys)
        ncr == Len(crack_polys)
        nin == Len(crack_inside_polys)
        b0  == nid + 2 * nd
        c0  == b0 + 2
        i0  == c0 + 4 * ncr
        next == i0 + 3 * nin
        \* lines 43-50
        diff_curve(j) == CopyObject(Lookup(d, diff_polys[j]), nid + 2 * (j - 1),
                                    "diff_curve", vec_d1)
        diff_curves   == {diff_curve(j) : j \in 1..nd}
        diff_surfaces == {SurfaceOn(diff_curve(j), nid + 2 * (j - 1) + 1, "diff_surface",
                                    cur, ZeroVec) : j \in 1..nd}
        doc1 == d \cup diff_curves \cup diff_surfaces
        \* lines 52-63
        base_bottom_curve == CopyObject(Lookup(d, base_poly), b0, "base_bottom_curve", vec_d1)
        loft == [SurfaceOn(Lookup(d, offset_poly), b0 + 1, "loft", cur,
                           PointAdd(base_bottom_curve.off,
                                    VectorReverse(Lookup(d, offset_poly).off)))
                    EXCEPT !.area = 0]
        loft_ids == IF h.loft THEN {b0 + 1} ELSE {}
        \* lines 66-81
        copied    == {j \in 1..ncr : h.crack[j].copy}
        deep(j)   == CopyObject(Lookup(d, crack_polys[j]), c0 + 4 * (j - 1), "deep_poly", vec_d1)
        extruded  == {j \in copied : h.crack[j].extrude}
        capped    == {j \in copied : h.crack[j].cap}
        extrusions == {[SurfaceOn(deep(j), c0 + 4 * (j - 1) + 1, "extrusion", cur, vec_delta)
                           EXCEPT !.area = 0] : j \in extruded}
        cap_curve(j) == CapCurve(deep(j), c0 + 4 * (j - 1) + 2, vec_delta)
        cap_curves   == {cap_curve(j) : j \in copied}
        bottom_caps  == {SurfaceOn(cap_curve(j), c0 + 4 * (j - 1) + 3, "cap", cur, ZeroVec) :
                            j \in capped}
        last      == CHOOSE j \in copied : \A k \in copied : k <= j
        extrusion == IF last \in extruded THEN c0 + 4 * (last - 1) + 1 ELSE None
        bottom_cap == IF last \in capped THEN c0 + 4 * (last - 1) + 3 ELSE None
        \* lines 84-101
        shifted(j) == CopyObject(Lookup(d, crack_inside_polys[j]), i0 + 3 * (j - 1),
                                 "shifted", vec_d1)
        helper_curves    == {shifted(j) : j \in 1..nin}
        inner_extrusions ==
            {[SurfaceOn(shifted(j), i0 + 3 * (j - 1) + 1, "inner_extrusion", cur, vec_delta)
                 EXCEPT !.area = 0] : j \in 1..nin}
            \cup {SurfaceOn(shifted(j), i0 + 3 * (j - 1) + 2, "inner_cap", cur, ZeroVec) :
                     j \in 1..nin}
        doc2 == doc1 \cup {base_bottom_curve} \cup (IF h.loft THEN {loft} ELSE {})
                     \cup extrusions \cup cap_curves \cup bottom_caps
                     \cup helper_curves \cup inner_extrusions
        \* lines 104-117
        doc3 == IF "crack_extrusion" \in lays
                THEN SetLayer(doc2, ExtrusionTargets(loft_ids, extrusion, bottom_cap),
                              "crack_extrusion")
                ELSE doc2
        \* lines 118-132
        doc4 == IF "cube" \in lays
                THEN SetLayer(doc3, Ids(inner_extrusions) \cup Ids(diff_surfaces), "cube")
                ELSE doc3
        \* lines 134-138
        cleanup_ids == CleanupIds(Ids(diff_curves), diff_polys, base_poly, b0,
                                  Ids(helper_curves), crack_inside_polys, offset_poly)
        doc5 == DeleteAll(doc4, cleanup_ids)
        out(doc6, n, r, e, msgs) ==
            [doc |-> doc6, nextId |-> n, ret |-> r, err |-> e, log |-> msgs]
    IN
    IF Len(crack_polys) = 0 \/ base_poly = None \/ offset_poly = None
          \/ ~IsPolyline(d, offset_poly)
    THEN out(d, nid, NoneCreated, "none",
             <<"create_crack: crack_polys, base_poly, and offset_poly must be polylines.">>)
    ELSE IF direction = NoDir
    THEN out(d, nid, NoneCreated, "none",
             <<"create_crack: failed to determine inward direction.">>)
    ELSE IF ~h.base_copy \/ ~IsObject(d, base_poly)
    THEN out(doc1, next, NoneCreated, "none", <<"create_crack: failed to offset base curve.">>)
    ELSE IF copied = {} /\ "crack_extrusion" \in lays
    THEN out(doc2, next, NoneCreated, "NameError: extrusion", <<>>)
    ELSE IF copied = {}
    THEN out(doc5, next, NoneCreated, "NameError: extrusion", <<>>)
    ELSE out(doc5, next,
             [kind |-> "created",
              loft |-> IF h.loft THEN <<b0 + 1>> ELSE <<>>,
              extrusion |-> extrusion],
             "none", <<>>)

-----------------------------------------------------------------------------
(* The embedding on its own: one call of map_2d_to_cube_face *)

\* create_model is not running
PipeIdle ==
    /\ faces = <<>>
    /\ budget = 0
    /\ fi = 0
    /\ fam = NoFamilies
    /\ gi = 0
    /\ cutters = <<>>
    /\ crack_items = <<>>
    /\ face_cracks = <<>>
    /\ xi = 0
    /\ calls = <<>>

FrameInit ==
    /\ PipeIdle
    /\ pc = "frame_call"
    /\ CUBE_LENGTH \in CubeLengths
    /\ call \in [points_2d_mm : PointLists, face : RawLabels]
    /\ ret = [err |-> "none", val |-> <<>>]
    /\ host = <<>>
    /\ doc = {}
    /\ nextId = 1
    /\ layers = {}
    /\ currentLayer = "Default"
    /\ err = "none"
    /\ log = <<>>

FrameMap ==
    /\ pc = "frame_call"
    /\ ret' = map_2d_to_cube_face(call.points_2d_mm, call.face, CUBE_LENGTH)
    /\ pc' = "frame_done"
    /\ UNCHANGED <<CUBE_LENGTH, doc, nextId, layers, currentLayer, call, host, err, log, pipeVars>>

FrameNext == FrameMap

SpecFrame == FrameInit /\ [][FrameNext]_vars

C15_UnknownLabelFails ==
    (pc = "frame_done" /\ StripLower(call.face) \notin FaceDirs) => ret.err = "ValueError"

-----------------------------------------------------------------------------
(* The splitter on its own: one call of split_face_and_keep_outer on a square *)
(* face and a list of cutters, each None, a curve, or a square surface that     *)
(* lies strictly inside the face next to the others                             *)

\* the longest cutter list handed to split_face_and_keep_outer on its own
MaxCutters == 2

SplitCubeLengths == {4, 6}

\* a cutter list entry: 0 is None, -1 the id of a curve, s > 0 a square of side s
CutterSpecs(L) ==
    {cs \in UNION {[1..n -> -1..(L - 1)] : n \in 0..MaxCutters} :
        SumSeq([i \in 1..Len(cs) |-> IF cs[i] > 0 THEN cs[i] ELSE 0]) < L}

SplitArgCutters(cs) ==
    [i \in 1..Len(cs) |-> IF cs[i] = 0 THEN None ELSE IF cs[i] = -1 THEN 2 ELSE 2 + i]

SplitArgDoc(L, hidden, cs) ==
    {[Obj(1, "brep", "face", "+x", 0, "Default", <<>>, ZeroVec, ZeroVec, L * L)
         EXCEPT !.hidden = hidden],
     Obj(2, "curve", "erode", "+x", 1, "Default", <<>>, ZeroVec, ZeroVec, 0)}
    \cup {Obj(2 + i, "brep", "offset_surface", "+x", i, "Default", <<>>, ZeroVec, ZeroVec,
              cs[i] * cs[i]) : i \in {j \in 1..Len(cs) : cs[j] > 0}}

SplitInit ==
    /\ PipeIdle
    /\ pc = "split_call"
    /\ CUBE_LENGTH \in SplitCubeLengths
    /\ \E cs \in CutterSpecs(CUBE_LENGTH), hidden \in BOOLEAN :
          /\ doc = SplitArgDoc(CUBE_LENGTH, hidden, cs)
          /\ call = [base_srf_id |-> 1, cutters |-> SplitArgCutters(cs), doc |-> doc]
          /\ nextId = 3 + Len(cs)
    /\ ret = None
    /\ host = <<>>
    /\ layers = {"Default"}
    /\ currentLayer = "Default"
    /\ err = "none"
    /\ log = <<>>

SplitCall ==
    /\ pc = "split_call"
    /\ \E split_breps \in SplitAnswers(doc, call.base_srf_id, call.cutters) :
       \E measurable \in [1..Len(split_breps) -> BOOLEAN] :
          LET r == split_face_and_keep_outer(doc, nextId, currentLayer, call.base_srf_id,
                                             call.cutters, split_breps, measurable)
          IN  /\ doc' = r.doc
              /\ nextId' = r.nextId
              /\ ret' = r.ret
              /\ log' = log \o r.log
              /\ host' = [split_breps |-> split_breps, measurable |-> measurable]
    /\ pc' = "split_done"
    /\ UNCHANGED <<CUBE_LENGTH, layers, currentLayer, call, err, pipeVars>>

SplitNext == SplitCall

SpecSplit == SplitInit /\ [][SplitNext]_vars

Fragments(d) == {o \in d : o.role = "fragment"}

\* a finished call with exactly one cutter, a valid square surface, that the host
\* split and measured
SingleCutterSplit ==
    /\ pc = "split_done"
    /\ Len(call.cutters) = 1
    /\ IsBrep(call.doc, call.cutters[1])
    /\ Len(host.split_breps) > 0
    /\ \A i \in 1..Len(host.measurable) : host.measurable[i]

FaceArea == Lookup(call.doc, call.base_srf_id).area

CutterArea == Lookup(call.doc, call.cutters[1]).area

C2_NoCuttersIdentity ==
    (pc = "split_done" /\ Len(call.cutters) = 0) =>
        /\ ret = call.base_srf_id
        /\ doc = call.doc
        /\ nextId = 3

C2_Witness ==
    /\ pc = "split_done"
    /\ Len(call.cutters) = 0
    /\ ret = 1
    /\ \E o \in doc : o.id = 1 /\ o.hidden

\* C3: when the host split returns no fragments for a valid face and at least one
\* valid cutter, the call returns the original face handle, the face still exists
\* unchanged, no error is raised and the failure is reported.
C3_EmptySplitFallsBack ==
    (/\ pc = "split_done"
     /\ Len(ValidCutters(call.doc, call.cutters)) > 0
     /\ Len(host.split_breps) = 0) =>
        /\ ret = call.base_srf_id
        /\ IsObject(doc, call.base_srf_id)
        /\ doc = call.doc
        /\ err = "none"
        /\ log # <<>>
        /\ log[Len(log)] = "Brep.Split failed or produced no pieces"

C3_Witness ==
    /\ pc = "split_done"
    /\ Len(ValidCutters(call.doc, call.cutters)) = 2
    /\ Len(host.split_breps) = 0
    /\ ret = 1
    /\ IsBrep(doc, 1)

\* a finished call in which the host split produced at least one fragment
SplitProduced == pc = "split_done" /\ Len(host.split_breps) > 0

\* the area the code found for piece i: 0.0 when it could not be measured
MeasuredArea(i) == IF host.measurable[i] THEN host.split_breps[i] ELSE 0

\* the ids the pieces of the split were added under
PieceIds == {3 + Len(call.cutters) + i - 1 : i \in 1..Len(host.split_breps)}

C18_BaseAndCuttersGone ==
    SplitProduced =>
        /\ ~IsObject(doc, call.base_srf_id)
        /\ \A c \in Range(ValidCutters(call.doc, call.cutters)) : ~IsObject(doc, c)

\* the base face alone is gone
BaseGone == SplitProduced => ~IsObject(doc, call.base_srf_id)

\* C19: cutters that are None or not surfaces are skipped without an error, the
\* call doing what it does on the valid cutters alone; when none is valid it does
\* what it does with no cutters: it returns the base face, which still exists, and
\* the document is untouched.
C19_InvalidCuttersSkipped ==
    pc = "split_done" =>
        LET valid == ValidCutters(call.doc, call.cutters)
            r == split_face_and_keep_outer(call.doc, 3 + Len(call.cutters), currentLayer,
                                           call.base_srf_id, valid, host.split_breps,
                                           host.measurable)
        IN  /\ err = "none"
            /\ doc = r.doc
            /\ ret = r.ret
            /\ Len(valid) = 0 =>
                  /\ ret = call.base_srf_id
                  /\ IsObject(doc, call.base_srf_id)
                  /\ doc = call.doc
                  /\ nextId = 3 + Len(call.cutters)

C19_Witness ==
    /\ pc = "split_done"
    /\ call.cutters = <<None, 2>>
    /\ ret = 1
    /\ IsBrep(doc, 1)
    /\ log = <<"Skipping non-brep cutter", "No valid cutter Breps found">>

-----------------------------------------------------------------------------
(* The pipeline: pipeline.create_model, with cube_modeling.create_cube inlined *)

\* the number of json files in cube_map_dir, after the slice of six is taken
MaxFiles == 2

\* the number of groups the records of one run hold in total
MaxGroups == 2

\* the orders in which rs.ExplodePolysurfaces may return the six surfaces, and so
\* the insertion orders of the dict faces
ExplodeOrders ==
    {<<"+x", "-x", "+y", "-y", "+z", "-z">>,
     <<"+y", "-y", "+z", "-z", "+x", "-x">>,
     <<"-z", "+z", "-x", "+x", "-y", "+y">>}

\* the layers the preparation step may have left, and the current one
LayerSetups ==
    {[layers |-> {"Default", "crack_CS1", "crack_CS2", "cube", "crack_extrusion"},
      current |-> "Default"],
     [layers |-> {"crack_CS1", "crack_CS2", "cube"}, current |-> "crack_CS1"],
     [layers |-> {"Default", "crack_CS1", "cube", "crack_extrusion"}, current |-> "Default"]}

\* the values <<d1, d2 - d1>> of the two random draws of one call, of
\* Uniform(0.5, 2.5) and Uniform(10, 30)
Draws == {<<1, 10>>, <<2, 20>>}

\* the corners of the face of a cube of side C that lies on the given side
CubeFacePoints(face_dir, C) ==
    LET half == C \div 2 IN
    <<MapPoint(face_dir, -half, -half, C), MapPoint(face_dir, half, -half, C),
      MapPoint(face_dir, half, half, C), MapPoint(face_dir, -half, half, C)>>

\* __create_cube_faces: the six surfaces of the exploded box, keyed by the side
\* their bounding box centre lies on, with ids first, first + 1, ...
create_cube_faces(order, first, layer, C) ==
    {Obj(first + k - 1, "brep", "face", order[k], 0, layer, CubeFacePoints(order[k], C),
         ZeroVec, ZeroVec, C * C) : k \in 1..6}

Min(a, b) == IF a <= b THEN a ELSE b

\* the number of (face, file) pairs of "zip(faces.keys(), filepaths)"
FacePairs == Min(6, call.nfiles)

\* the assertion of create_cube with the severities left out of the comparison
LengthsMatchNoSeverities(f) ==
    /\ Len(f.contours) = Len(f.erode_contours)
    /\ Len(f.erode_contours) = Len(f.base_contours)
    /\ Len(f.base_contours) = Len(f.diff_contours)

\* "assert len(contours) == len(severities) == len(erode_contours) ==
\*  len(base_contours) == len(diff_contours)"
LengthsMatch(f) ==
    /\ Len(f.contours) = Len(f.severities)
    /\ Len(f.severities) = Len(f.erode_contours)
    /\ Len(f.erode_contours) = Len(f.base_contours)
    /\ Len(f.base_contours) = Len(f.diff_contours)

\* the number of groups a record holds: the length of its longest family
GroupCount(data) ==
    MaxSeq(<<Len(data.contours), Len(data.base_contours), Len(data.expanded_contours),
             Len(data.difference_contours), Len(data.severities)>>)

Init ==
    /\ pc = "create_model"
    /\ CUBE_LENGTH = 500
    /\ doc = {}
    /\ nextId = 1
    /\ \E setup \in LayerSetups : layers = setup.layers /\ currentLayer = setup.current
    /\ call \in [strategy : {"cube", "component", "spall"}, explode : ExplodeOrders,
                 nfiles : 0..MaxFiles]
    /\ ret = None
    /\ host = <<>>
    /\ err = "none"
    /\ log = <<>>
    /\ faces = <<>>
    /\ budget = MaxGroups
    /\ fi = 0
    /\ fam = NoFamilies
    /\ gi = 0
    /\ cutters = <<>>
    /\ crack_items = <<>>
    /\ face_cracks = <<>>
    /\ xi = 0
    /\ calls = <<>>

\* create_model, strategy "cube": create_cube up to the face loop (lines 273-279)
CreateCubeStart ==
    /\ pc = "create_model"
    /\ call.strategy = "cube"
    /\ doc' = doc \cup create_cube_faces(call.explode, nextId, currentLayer, CUBE_LENGTH)
    /\ nextId' = nextId + 6
    /\ faces' = [k \in 1..6 |-> [dir |-> call.explode[k], id |-> nextId + k - 1]]
    /\ fi' = 1
    /\ pc' = IF FacePairs > 0 THEN "face" ELSE "faces_done"
    /\ UNCHANGED <<CUBE_LENGTH, layers, currentLayer, call, ret, host, err, log, budget, fam,
                   gi, cutters, crack_items, face_cracks, xi, calls>>

\* create_model, strategy "component": nothing is done
CreateModelComponent ==
    /\ pc = "create_model"
    /\ call.strategy = "component"
    /\ pc' = "done"
    /\ UNCHANGED <<CUBE_LENGTH, doc, nextId, layers, currentLayer, call, ret, host, err, log,
                   pipeVars>>

\* create_model, any other strategy: "raise ValueError"
CreateModelUnknown ==
    /\ pc = "create_model"
    /\ call.strategy \notin {"cube", "component"}
    /\ err' = "ValueError: Unknown strategy"
    /\ pc' = "failed"
    /\ UNCHANGED <<CUBE_LENGTH, doc, nextId, layers, currentLayer, call, ret, host, log,
                   pipeVars>>

\* The head of the face loop (lines 280-290): the face is hidden, the record read,
\* the lengths of the families compared.
FaceIngest ==
    /\ pc = "face"
    /\ \E data \in Records(budget) :
          LET r == read_contour_json(data, CUBE_LENGTH) IN
          /\ CUBE_LENGTH' = r.CUBE_LENGTH
          /\ budget' = budget - GroupCount(data)
          /\ host' = data
          /\ IF r.err # "none"
             THEN /\ err' = r.err
                  /\ pc' = "failed"
                  /\ UNCHANGED <<fam, gi, cutters, crack_items>>
             ELSE IF ~LengthsMatch(r.fam)
             THEN /\ err' = "AssertionError: Mismatch in number of contours"
                  /\ pc' = "failed"
                  /\ fam' = r.fam
                  /\ UNCHANGED <<gi, cutters, crack_items>>
             ELSE /\ fam' = r.fam
                  /\ gi' = 1
                  /\ cutters' = <<>>
                  /\ crack_items' = <<>>
                  /\ pc' = IF Len(r.fam.erode_contours) > 0 THEN "group" ELSE "split"
                  /\ UNCHANGED err
    /\ doc' = SetHidden(doc, faces[fi].id, TRUE)
    /\ UNCHANGED <<nextId, layers, currentLayer, call, ret, log, faces, fi, face_cracks, xi,
                   calls>>

\* One iteration of the group loop (lines 292-352).
GroupStep ==
    /\ pc = "group"
    /\ \E planar_ok \in BOOLEAN :
          LET r == EmbedGroup(doc, nextId, currentLayer, layers, CUBE_LENGTH, faces[fi].dir,
                              gi, fam, planar_ok)
          IN  /\ doc' = r.doc
              /\ nextId' = r.nextId
              /\ log' = log \o r.log
              /\ cutters' = cutters \o r.cutters
              /\ crack_items' = crack_items \o r.crack_items
              /\ err' = r.err
              /\ pc' = IF r.err # "none" THEN "failed"
                       ELSE IF gi < Len(fam.erode_contours) THEN "group" ELSE "split"
              /\ gi' = IF r.err # "none" THEN gi ELSE gi + 1
    /\ UNCHANGED <<CUBE_LENGTH, layers, currentLayer, call, ret, host, faces, budget, fi, fam,
                   face_cracks, xi, calls>>

\* whether a surface lies in the plane of the face and within its edges
LiesInFace(srf, face) ==
    LET k    == FixedAxis(face.face)
        at   == face.pts[1][k]
        half == IF at < 0 THEN -at ELSE at
    IN  \A j \in 1..Len(srf.pts) :
           /\ srf.pts[j][k] = at
           /\ \A a \in (1..3) \ {k} : srf.pts[j][a] > -half /\ srf.pts[j][a] < half

\* What Brep.Split may answer in create_cube: pieces only when every cutter lies in
\* the face.
FaceSplitAnswers(d, base_srf_id, cutter_list) ==
    IF \A c \in Range(ValidCutters(d, cutter_list)) :
           LiesInFace(Lookup(d, c), Lookup(d, base_srf_id))
    THEN SplitAnswers(d, base_srf_id, cutter_list)
    ELSE {<<>>}

\* The tail of the face loop (lines 354-357): the split, ShowObject, face_cracks.
FaceSplit ==
    /\ pc = "split"
    /\ \E split_breps \in FaceSplitAnswers(doc, faces[fi].id, cutters) :
          LET measurable == [k \in 1..Len(split_breps) |-> TRUE]
              r == split_face_and_keep_outer(doc, nextId, currentLayer, faces[fi].id, cutters,
                                             split_breps, measurable)
          IN  /\ doc' = SetHidden(r.doc, faces[fi].id, FALSE)
              /\ nextId' = r.nextId
              /\ ret' = r.ret
              /\ log' = log \o r.log
              /\ host' = [split_breps |-> split_breps, measurable |-> measurable]
    /\ face_cracks' = Append(face_cracks, [face |-> faces[fi].dir, items |-> crack_items])
    /\ fi' = fi + 1
    /\ pc' = IF fi < FacePairs THEN "face" ELSE "faces_done"
    /\ UNCHANGED <<CUBE_LENGTH, layers, currentLayer, call, err, faces, budget, fam, gi,
                   cutters, crack_items, xi, calls>>

\* the crack items of all faces, in the order create_model visits them
RECURSIVE AllItems(_)
AllItems(fc) ==
    IF fc = <<>> THEN <<>>
    ELSE [k \in 1..Len(fc[1].items) |-> [face |-> fc[1].face, item |-> fc[1].items[k]]]
         \o AllItems(Tail(fc))

\* The end of create_cube (lines 359-363): the original faces that still exist are
\* deleted and face_cracks is returned.
CubeFinish ==
    /\ pc = "faces_done"
    /\ doc' = DeleteAll(doc, {faces[k].id : k \in 1..Len(faces)})
    /\ xi' = 1
    /\ pc' = IF Len(AllItems(face_cracks)) > 0 THEN "extrude" ELSE "done"
    /\ UNCHANGED <<CUBE_LENGTH, nextId, layers, currentLayer, call, ret, host, err, log, faces,
                   budget, fi, fam, gi, cutters, crack_items, face_cracks, calls>>

\* what the host answers during a call of create_crack from create_model: every
\* operation succeeds
PipelineHost(ncr) ==
    {[dir |-> NoDir, base_copy |-> b, loft |-> TRUE,
      crack |-> [j \in 1..ncr |-> [copy |-> TRUE, extrude |-> TRUE, cap |-> TRUE]]] :
        b \in {TRUE}}

\* One iteration of the item loop of create_model (lines 63-74): one create_crack.
CrackCall ==
    /\ pc = "extrude"
    /\ LET entry  == AllItems(face_cracks)[xi]
           item   == entry.item
           inward == inward_dirs(entry.face)
           ncr    == Len(SelectSeq(item.crack_polys, LAMBDA bp : IsPolyline(doc, bp)))
       IN  \E dr \in Draws, h \in PipelineHost(ncr) :
              LET d1    == dr[1]
                  delta == dr[2]
                  r == create_crack(doc, nextId, currentLayer, layers, item.crack_polys,
                                    item.inside_polys, item.base_poly, item.offset_poly,
                                    item.diff_polys, inward, d1, delta, h)
              IN  /\ doc' = r.doc
                  /\ nextId' = r.nextId
                  /\ ret' = r.ret
                  /\ err' = r.err
                  /\ log' = log \o r.log
                  /\ host' = h
                  /\ calls' = Append(calls, [face |-> entry.face, item |-> item,
                                             inward_dir |-> inward, d1 |-> d1,
                                             delta |-> delta, ret |-> r.ret])
                  /\ pc' = IF r.err # "none" THEN "failed"
                           ELSE IF xi < Len(AllItems(face_cracks)) THEN "extrude" ELSE "done"
    /\ xi' = xi + 1
    /\ UNCHANGED <<CUBE_LENGTH, layers, currentLayer, call, faces, budget, fi, fam, gi,
                   cutters, crack_items, face_cracks>>

Next ==
    \/ CreateCubeStart
    \/ CreateModelComponent
    \/ CreateModelUnknown
    \/ FaceIngest
    \/ GroupStep
    \/ FaceSplit
    \/ CubeFinish
    \/ CrackCall

Spec == Init /\ [][Next]_vars

-----------------------------------------------------------------------------
(* Properties of create_model *)

\* C5: for each of the six face directions the inward direction create_model
\* passes to create_crack is the negation of face_dir_normal of that direction and
\* lies along the axis map_2d_to_cube_face holds fixed for that face.
C5_InwardIsNegatedNormal ==
    /\ \A f \in FaceDirs :
          /\ inward_dirs(f) = VectorReverse(face_dir_normal(f))
          /\ inward_dirs(f)[FixedAxis(f)] \in {-1, 1}
          /\ \A a \in (1..3) \ {FixedAxis(f)} : inward_dirs(f)[a] = 0
    /\ \A k \in 1..Len(calls) :
          /\ calls[k].inward_dir = VectorReverse(face_dir_normal(calls[k].face))
          /\ \A a \in (1..3) \ {FixedAxis(calls[k].face)} : calls[k].inward_dir[a] = 0

C5_Witness ==
    /\ Len(calls) = 2
    /\ calls[1].face = "+y"
    /\ calls[2].face = "-y"
    /\ calls[2].inward_dir = <<0, 1, 0>>

\* the five families of the record as read
RawLengths(data) ==
    {Len(data.contours), Len(data.base_contours), Len(data.expanded_contours),
     Len(data.difference_contours), Len(data.severities)}

MismatchError == "AssertionError: Mismatch in number of contours"

\* C6: when the record read for a face has families of unequal length, create_cube
\* fails with the count-mismatch error, and no polygon of that face has been
\* embedded and no cutter or crack item created for it.
C6_MismatchFailsBeforeEmbedding ==
    [][(pc = "face" /\ pc' # "face" /\ host'.keys = AllKeys
           /\ Cardinality(RawLengths(host')) > 1)
       => /\ pc' = "failed"
          /\ err' = MismatchError
          /\ nextId' = nextId
          /\ face_cracks' = face_cracks
          /\ \A o \in doc' : o.face = faces[fi].dir => o.role = "face"]_vars

C6_Witness ==
    /\ pc = "failed"
    /\ err = MismatchError
    /\ fi = 2
    /\ Len(host.severities) < Len(host.contours)
    /\ \E o \in doc : o.face = faces[1].dir /\ o.role = "offset_surface"

\* what may remain once the model is built: outer faces, lofts, solids and caps
FinalRoles ==
    {"face", "fragment", "loft", "extrusion", "cap", "inner_extrusion", "inner_cap",
     "diff_surface"}

\* create_model has returned, every step having succeeded
CleanRun ==
    /\ pc = "done"
    /\ call.strategy = "cube"
    /\ err = "none"
    /\ log = <<>>
    /\ calls # <<>>
    /\ \A k \in 1..Len(calls) : calls[k].ret.kind = "created"

\* C7: after create_model completes with no failing step no construction object
\* remains: only outer faces, loft surfaces, extrusion solids and caps.
C7_NoConstructionObjectRemains ==
    CleanRun => \A o \in doc : o.role \in FinalRoles

\* C8: the loft, the solids and the caps made from a group of severity S are on
\* layer crack_S, and what is made from inside and difference polygons is on the
\* layer cube (stated for the face read last, whose record is still at hand).
C8_SeverityLayers ==
    (CleanRun /\ fi = FacePairs + 1)
    => \A o \in doc :
          o.face = faces[fi - 1].dir
          => /\ o.role \in {"loft", "extrusion", "cap"}
                => o.layer = LayerName(fam.severities[o.grp])
             /\ o.role \in {"inner_extrusion", "inner_cap", "diff_surface"}
                => o.layer = "cube"

\* C9: in a call of create_crack with draws d1 and delta the loft reaches from the
\* offset polygon to the bottom curve at d1 along the inward direction, every solid
\* starts at d1 and runs delta along it, and every cap lies at d1 + delta, on the
\* far end of its solid.
C9_DepthLaw ==
    [][(pc = "extrude" /\ Len(calls') = Len(calls) + 1)
       => LET c      == calls'[Len(calls')]
              new    == {o \in doc' : o.id \notin Ids(doc)}
              at(t)  == VectorScale(c.inward_dir, t)
          IN  \A o \in new :
                 /\ o.role = "loft" => o.off = ZeroVec /\ o.ext = at(c.d1)
                 /\ o.role = "extrusion" => o.off = at(c.d1) /\ o.ext = at(c.delta)
                 /\ o.role = "cap"
                    => /\ o.off = at(c.d1 + c.delta)
                       /\ \E e \in new :
                             /\ e.role = "extrusion"
                             /\ e.id = o.id - 2
                             /\ o.pts = [k \in 1..Len(e.pts) |-> PointAdd(e.pts[k], e.ext)]]_vars

C9_Witness ==
    /\ Len(calls) = 1
    /\ calls[1].d1 = 2
    /\ calls[1].delta = 20
    /\ calls[1].face = "-z"
    /\ \E o \in doc : o.role = "cap" /\ o.off = <<0, 0, 22>>
    /\ \E o \in doc : o.role = "extrusion" /\ o.off = <<0, 0, 2>> /\ o.ext = <<0, 0, 20>>
    /\ \E o \in doc : o.role = "loft" /\ o.ext = <<0, 0, 2>>

\* group i of the record would be embedded and extruded if it were alone
GroupWellFormed(f, i, lays) ==
    /\ Len(f.erode_contours[i].points) > 0
    /\ Len(f.base_contours[i].points) > 0
    /\ LayerName(f.severities[i]) \in lays
    /\ \E j \in 1..Len(f.contours[i]) :
          f.contours[i][j].parent = -1 /\ Len(f.contours[i][j].points) >= 3

\* C10: a group that fails for want of its severity layer does not keep another
\* group of the face from being embedded and extruded.
C10_FailedGroupSparesSiblings ==
    (pc = "failed" /\ err = MissingLayerError)
    => \A i \in 1..Len(fam.erode_contours) :
          (i # gi /\ GroupWellFormed(fam, i, layers))
          => \E o \in doc : o.face = faces[fi].dir /\ o.grp = i /\ o.role = "extrusion"

\* C11: when a face fails fatally, every face completed before it still has its
\* outer face in the document and has had its crack items extruded.
C11_CompletedFacesSurvive ==
    (pc = "failed" /\ call.strategy = "cube" /\ fi <= FacePairs)
    => \A k \in 1..Len(face_cracks) :
          /\ \E o \in doc : o.face = face_cracks[k].face /\ o.role \in {"face", "fragment"}
          /\ \A j \in 1..Len(face_cracks[k].items) :
                \E o \in doc :
                   /\ o.role = "extrusion"
                   /\ o.face = face_cracks[k].face
                   /\ o.grp = Lookup(doc, face_cracks[k].items[j].offset_surface).grp

\* the same, for the outer faces only
C11_OuterFacesSurvive ==
    (pc = "failed" /\ call.strategy = "cube" /\ fi <= FacePairs)
    => \A k \in 1..Len(face_cracks) :
          \E o \in doc : o.face = face_cracks[k].face /\ o.role \in {"face", "fragment"}

-----------------------------------------------------------------------------
(* The ingestion on its own: calls of read_contour_json on one record *)

\* the number of times the record is read
MaxReads == 2

\* <<pixel_size_cm, width_px, height_px>>
IngestDims == {<<1, w, h>> : w \in {0, 2, 5}, h \in {0, 2, 5}}

\* the keys a record may lack
IngestLacks ==
    {{}, {"pixel_size_cm"}, {"contours"}, {"width_px"}, {"height_px"},
     {"width_px", "height_px"}, {"severities"}, {"pixel_size_cm", "contours"},
     {"pixel_size_cm", "width_px", "height_px"}, {"contours", "width_px", "height_px"}}

IngestRecords ==
    {MkRecord(AllKeys \ lacks, d, gs, "none") :
        lacks \in IngestLacks, d \in IngestDims, gs \in GroupLists(1)}

IngestInit ==
    /\ pc = "ingest"
    /\ CUBE_LENGTH \in CubeLengths
    /\ call \in [data : IngestRecords]
    /\ host \in IngestRecords
    /\ host = call.data
    /\ ret = [err |-> "none", fam |-> NoFamilies]
    /\ doc = {}
    /\ nextId = 1
    /\ layers = {}
    /\ currentLayer = "Default"
    /\ err = "none"
    /\ log = <<>>
    /\ PipeIdle

\* One call of read_contour_json(filepath) on the file holding the record: host is
\* the record as the call leaves it (the code never writes to it).
IngestRead ==
    /\ pc = "ingest"
    /\ Len(calls) < MaxReads
    /\ LET r == read_contour_json(call.data, CUBE_LENGTH) IN
          /\ CUBE_LENGTH' = r.CUBE_LENGTH
          /\ ret' = [err |-> r.err, fam |-> r.fam]
          /\ err' = r.err
          /\ calls' = Append(calls, [before |-> CUBE_LENGTH, after |-> r.CUBE_LENGTH,
                                     err |-> r.err, fam |-> r.fam])
    /\ host' = call.data
    /\ UNCHANGED <<pc, doc, nextId, layers, currentLayer, call, log, faces, budget, fi, fam,
                   gi, cutters, crack_items, face_cracks, xi>>

IngestNext == IngestRead

SpecIngest == IngestInit /\ [][IngestNext]_vars

\* C12: reading the same record twice returns the same families, and a read
\* changes nothing but its return value: the record and the module-level state
\* (CUBE_LENGTH) are after the call what they were before it.
C12_IngestIsPure ==
    /\ host = call.data
    /\ \A k \in 1..Len(calls) : calls[k].after = calls[k].before
    /\ Len(calls) = 2 => calls[1].fam = calls[2].fam /\ calls[1].err = calls[2].err

\* the part of it about the returned families and the record alone
IngestRepeatable ==
    /\ host = call.data
    /\ Len(calls) = 2 => calls[1].fam = calls[2].fam /\ calls[1].err = calls[2].err

\* width_px and height_px are both absent or zero
NoDimension(data) ==
    /\ "width_px" \notin data.keys \/ data.width_px = 0
    /\ "height_px" \notin data.keys \/ data.height_px = 0

\* the errors the defects of a record call for
ErrorsCalledFor(data) ==
    (IF "pixel_size_cm" \notin data.keys
     THEN {"KeyError: JSON must contain pixel_size_cm"} ELSE {})
    \cup (IF "contours" \notin data.keys
          THEN {"KeyError: JSON must contain contours"} ELSE {})
    \cup (IF NoDimension(data)
          THEN {"KeyError: JSON must contain valid width_px or height_px"} ELSE {})

\* C13: a record without pixel_size_cm or without contours fails with the error
\* naming the missing field, a record whose width_px and height_px are both absent
\* or zero fails with the error about the dimensions, and no families are returned.
C13_MalformedRecordFails ==
    (Len(calls) > 0 /\ ErrorsCalledFor(call.data) # {})
    => /\ ret.err \in ErrorsCalledFor(call.data)
       /\ ret.fam = NoFamilies

C13_Witness ==
    /\ Len(calls) = 1
    /\ "width_px" \notin call.data.keys
    /\ call.data.height_px = 0
    /\ "pixel_size_cm" \in call.data.keys
    /\ ret.err = "KeyError: JSON must contain valid width_px or height_px"

Max(a, b) == IF a >= b THEN a ELSE b

\* C14: after a record is ingested the cube size is max(width_px, height_px) times
\* the pixel size (in mm), whenever one of the two is non-zero.
C14_CubeSizeIsMaxDimension ==
    (Len(calls) > 0 /\ ret.err = "none")
    => CUBE_LENGTH = Max(GetOr0(call.data, "width_px"), GetOr0(call.data, "height_px"))
                     * (call.data.pixel_size_cm * 10)

\* C16: when create_cube returns, every face it processed has exactly one outer
\* face in the document: the split fragment kept, or the original face.
C16_OneOuterFacePerFace ==
    (call.strategy = "cube" /\ pc \in {"extrude", "done"})
    => \A k \in 1..Len(face_cracks) :
          Cardinality({o \in doc : o.face = face_cracks[k].face
                                     /\ o.role \in {"face", "fragment"}}) = 1

\* C20: a group that create_cube skips (its erode polygon, its base polygon or its
\* list of crack polygons is empty) leaves behind no curve or surface created for it.
C20_SkippedGroupLeavesNothing ==
    [][(pc = "group" /\ gi' = gi + 1 /\ Len(crack_items') = Len(crack_items))
       => doc' = doc]_vars

\* what the embedding of a group and what the extrusion of its item add
EmbeddedRoles == {"erode", "base", "diff", "crack", "inside", "offset_surface"}

ExtrudedRoles ==
    {"diff_curve", "diff_surface", "base_bottom_curve", "loft", "extrusion", "cap_curve",
     "cap", "shifted", "inner_extrusion", "inner_cap"}

\* the faces whose split has finished
SplitFaces == {face_cracks[k].face : k \in 1..Len(face_cracks)}

\* C21: for every face the phases come in the order Ingesting, Embedding,
\* Splitting, Extruding: a face is ingested once and leaves Ingesting only with
\* its list lengths checked, polygons are embedded only for the face ingested and
\* not yet split, and a group is extruded only after the split of its face.
C21_PhaseOrder ==
    [][LET new == {o \in doc' : o.id \notin Ids(doc)} IN
       /\ (pc = "face" /\ pc' # "face") => faces[fi].dir \notin SplitFaces
       /\ (pc = "face" /\ pc' \in {"group", "split"})
          => host'.keys = AllKeys /\ Cardinality(RawLengths(host')) = 1
       /\ pc' = "group" => pc \in {"face", "group"}
       /\ pc' = "split" => pc \in {"face", "group"}
       /\ pc' = "extrude" => pc \in {"faces_done", "extrude"}
       /\ \A o \in new :
             /\ o.role \in EmbeddedRoles
                => pc = "group" /\ o.face = faces[fi].dir /\ o.face \notin SplitFaces
             /\ o.role = "fragment"
                => pc = "split" /\ o.face = faces[fi].dir /\ o.face \notin SplitFaces
             /\ o.role \in ExtrudedRoles => pc = "extrude" /\ o.face \in SplitFaces]_vars

C21_Witness ==
    /\ pc = "done"
    /\ Len(calls) = 2
    /\ calls[1].face # calls[2].face
    /\ \A k \in 1..2 :
          /\ \E o \in doc : o.role = "fragment" /\ o.face = calls[k].face
          /\ \E o \in doc : o.role = "extrusion" /\ o.face = calls[k].face

\* C22: the faces are processed one after the other, extrusion included: while a
\* face is ingested, embedded or split, every item of the faces before it has been
\* extruded.
C22_FacesStrictlySequential ==
    (call.strategy = "cube" /\ pc \in {"group", "split"})
    => \A k \in 1..Len(face_cracks) : \A j \in 1..Len(face_cracks[k].items) :
          \E o \in doc : o.role = "extrusion" /\ o.face = face_cracks[k].face

\* the order of the faces in the docstring of __create_cube_faces
CanonicalOrder == <<"+x", "-x", "+y", "-y", "+z", "-z">>

\* C23: the faces are visited in one fixed order, so that the k-th record goes to
\* the same face in every run, whatever the order of the exploded surfaces.
C23_FixedFaceOrder ==
    \A k \in 1..Len(faces) : faces[k].dir = CanonicalOrder[k]

\* the curves an item was built from
ItemCurves(item) ==
    Range(item.crack_polys) \cup Range(item.inside_polys) \cup Range(item.diff_polys)
        \cup {item.base_poly, item.offset_poly}

\* C24: every crack item create_cube returned is passed to create_crack exactly
\* once, and after the call none of its construction curves is in the document.
C24_ItemsConsumedOnce ==
    (pc = "done" /\ call.strategy = "cube")
    => \A e \in Range(AllItems(face_cracks)) :
          /\ Cardinality({k \in 1..Len(calls) : calls[k].item = e.item}) = 1
          /\ \A id \in ItemCurves(e.item) : ~IsObject(doc, id)

\* the first half of it: one call per item
ItemsPassedOnce ==
    (pc = "done" /\ call.strategy = "cube")
    => \A e \in Range(AllItems(face_cracks)) :
          Cardinality({k \in 1..Len(calls) : calls[k].item = e.item}) = 1

\* C25: a group whose offset polygon or base polygon has fewer than 3 points is
\* skipped: no failure, no cutter and no crack item added, and the loop goes on
\* with the next group.
C25_DegenerateGroupSkipped ==
    [][(/\ pc = "group"
        /\ \/ Len(fam.erode_contours[gi].points) < 3
           \/ Len(fam.base_contours[gi].points) < 3)
       => /\ err' = "none"
          /\ gi' = gi + 1
          /\ cutters' = cutters
          /\ crack_items' = crack_items]_vars

\* C27: the points create_cube embeds for a face lie in the plane of the face
\* surface being split: their fixed-axis coordinate is the one the face was
\* created at, whatever cube size the record gives.
C27_EmbeddedInFacePlane ==
    [][pc = "group"
       => LET face == Lookup(doc, faces[fi].id)
              k    == FixedAxis(face.face)
          IN  \A o \in doc' :
                 (o.id \notin Ids(doc) /\ o.role \in EmbeddedRoles)
                 => \A j \in 1..Len(o.pts) : o.pts[j][k] = face.pts[1][k]]_vars

\* C28: when create_cube is not working on a face (it finished the face or
\* failed), no surviving face surface is hidden.
C28_NoFaceLeftHidden ==
    pc \notin {"group", "split"} => \A o \in doc : o.role = "face" => ~o.hidden

-----------------------------------------------------------------------------
(* The extrusion on its own: one call of create_crack on one embedded group *)

\* the face the group lies on
CrackFace == "-z"

\* what has happened to the curves of the item before the call
Damages == {"none", "offset_gone", "cracks_gone"}

\* the families of a record holding one group of the given kind, severity CS1
OneGroupFamilies(kind) ==
    read_contour_json(MkRecord(AllKeys, <<1, 50, 50>>, <<RawGroup(kind, "CS1")>>, "none"),
                      500).fam

\* the group as create_cube embeds it in an empty document
EmbeddedGroup(kind, setup) ==
    EmbedGroup({}, 1, setup.current, setup.layers, 500, CrackFace, 1,
               OneGroupFamilies(kind), TRUE)

\* everything the host may answer during one call
CrackHosts(inward_dir, ncr) ==
    [dir : IF inward_dir = NoDir THEN {NoDir, inward_dirs(CrackFace)} ELSE {NoDir},
     base_copy : BOOLEAN,
     loft : BOOLEAN,
     crack : [1..ncr -> [copy : BOOLEAN, extrude : BOOLEAN, cap : BOOLEAN]]]

CrackInit ==
    /\ pc = "crack_call"
    /\ CUBE_LENGTH = 500
    /\ \E setup \in LayerSetups, kind \in {"min", "rich"}, damage \in Damages :
          LET e    == EmbeddedGroup(kind, setup)
              item == e.crack_items[1]
              gone == CASE damage = "none" -> {}
                        [] damage = "offset_gone" -> {item.offset_poly}
                        [] damage = "cracks_gone" -> Range(item.crack_polys)
          IN  /\ layers = setup.layers
              /\ currentLayer = setup.current
              /\ doc = DeleteAll(e.doc, gone)
              /\ nextId = e.nextId
              /\ \E inward_dir \in {NoDir, inward_dirs(CrackFace)} :
                    call = [item |-> item, face |-> CrackFace, inward_dir |-> inward_dir]
    /\ ret = None
    /\ host = <<>>
    /\ err = "none"
    /\ log = <<>>
    /\ PipeIdle

\* create_crack(item.get("crack_polys"), ..., inward_dir=...)
CrackOnly ==
    /\ pc = "crack_call"
    /\ LET item == call.item
           ncr  == Len(SelectSeq(item.crack_polys, LAMBDA bp : IsPolyline(doc, bp)))
       IN  \E dr \in Draws, h \in CrackHosts(call.inward_dir, ncr) :
              LET r == create_crack(doc, nextId, currentLayer, layers, item.crack_polys,
                                    item.inside_polys, item.base_poly, item.offset_poly,
                                    item.diff_polys, call.inward_dir, dr[1], dr[2], h)
              IN  /\ doc' = r.doc
                  /\ nextId' = r.nextId
                  /\ ret' = r.ret
                  /\ err' = r.err
                  /\ log' = log \o r.log
                  /\ host' = h
                  /\ calls' = Append(calls, [face |-> call.face, item |-> item,
                                             inward_dir |-> call.inward_dir, d1 |-> dr[1],
                                             delta |-> dr[2], ret |-> r.ret])
                  /\ pc' = IF r.err # "none" THEN "crack_raised" ELSE "crack_done"
    /\ UNCHANGED <<CUBE_LENGTH, layers, currentLayer, call, faces, budget, fi, fam, gi,
                   cutters, crack_items, face_cracks, xi>>

CrackNext == CrackOnly

SpecCrack == CrackInit /\ [][CrackNext]_vars

\* the ids the returned bundle lists
BundleIds == Range(ret.loft) \cup ({ret.extrusion} \ {None})

\* C26: the bundle create_crack returns lists every loft surface, every extrusion
\* solid and every cap the call left in the document.
C26_BundleListsAllResults ==
    (pc = "crack_done" /\ ret.kind = "created")
    => \A o \in doc : o.role \in {"loft", "extrusion", "cap"} => o.id \in BundleIds

\* C29: create_crack never raises, whatever host operations fail: it returns a
\* bundle or None.
C29_NeverRaises ==
    pc \in {"crack_done", "crack_raised"}
    => err = "none" /\ ret.kind \in {"created", "None"}

-----------------------------------------------------------------------------
(* The preparation step: create_layers on a document with layers and objects *)

\* the layer names a document may hold before the call
LayerNames == {"Default", "cube", "crack_CS1", "crack_extrusion"}

\* layer_color_dict, as the sequence of its keys in insertion order
LayerDicts ==
    {<<>>, <<"cube">>, <<"cube", "crack_CS1">>, <<"crack_CS1", "cube", "crack_extrusion">>}

\* the id of the object a layer holds before the call
LayerObjectId(name) ==
    CASE name = "Default" -> 1
      [] name = "cube" -> 2
      [] name = "crack_CS1" -> 3
      [] name = "crack_extrusion" -> 4

\* one object on each of the given layers
ObjectsOn(names) ==
    {Obj(LayerObjectId(n), "brep", "face", "+x", 0, n, <<>>, ZeroVec, ZeroVec, 0) :
        n \in names}

\* rs.ObjectsByLayer
ObjectsByLayer(d, name) == {o.id : o \in {x \in d : x.layer = name}}

\* rs.DeleteLayer: the host refuses to delete the current layer and a layer
\* that holds objects
DeleteLayer(lays, cur, d, name) ==
    IF name \in lays /\ name # cur /\ ObjectsByLayer(d, name) = {}
    THEN lays \ {name}
    ELSE lays

\* create_single_layer: the existing layer of that name, or a new one
create_single_layer(lays, name) == lays \cup {name}

LayersInit ==
    /\ pc = "create_layers"
    /\ CUBE_LENGTH = 500
    /\ layers \in (SUBSET LayerNames) \ {{}}
    /\ currentLayer \in layers
    /\ \E used \in {{}, layers} : doc = ObjectsOn(used)
    /\ nextId = Cardinality(LayerNames) + 1
    /\ call \in [layer_color_dict : LayerDicts, currnt_layer : {None}]
    /\ ret = None
    /\ host = <<>>
    /\ err = "none"
    /\ log = <<>>
    /\ PipeIdle

\* lines 40-45: the empty dictionary is refused, the current layer's name is read
LayersStart ==
    /\ pc = "create_layers"
    /\ IF call.layer_color_dict = <<>>
       THEN /\ err' = "ValueError: Layer color dictionary is required to create layers."
            /\ pc' = "layers_raised"
            /\ UNCHANGED call
       ELSE /\ call' = [call EXCEPT !.currnt_layer = currentLayer]
            /\ pc' = "purge"
            /\ UNCHANGED err
    /\ UNCHANGED <<CUBE_LENGTH, doc, nextId, layers, currentLayer, ret, host, log, faces,
                   budget, fi, fam, gi, cutters, crack_items, face_cracks, xi, calls>>

\* lines 46-51: 'layer != currnt_layer' compares a layer object with a name and
\* holds for every layer, so the objects of every layer are deleted and every
\* layer the host lets go is deleted
LayersPurge ==
    /\ pc = "purge"
    /\ LET emptied == {o \in doc : o.layer \notin layers} IN
          /\ doc' = emptied
          /\ layers' = {n \in layers : n \in DeleteLayer(layers, currentLayer, emptied, n)}
    /\ pc' = "create"
    /\ UNCHANGED <<CUBE_LENGTH, nextId, currentLayer, call, ret, host, err, log, faces,
                   budget, fi, fam, gi, cutters, crack_items, face_cracks, xi, calls>>

\* lines 53-56: every layer of the dictionary is created or found
LayersCreate ==
    /\ pc = "create"
    /\ layers' = layers \cup
                 UNION {create_single_layer({}, n) : n \in Range(call.layer_color_dict)}
    /\ pc' = "finish"
    /\ UNCHANGED <<CUBE_LENGTH, doc, nextId, currentLayer, call, ret, host, err, log, faces,
                   budget, fi, fam, gi, cutters, crack_items, face_cracks, xi, calls>>

\* lines 58-62: the first layer of the dictionary becomes current, then the
\* layer that was current before is deleted
LayersFinish ==
    /\ pc = "finish"
    /\ LET first_layer == call.layer_color_dict[1] IN
          /\ currentLayer' = first_layer
          /\ layers' = DeleteLayer(layers, first_layer, doc, call.currnt_layer)
    /\ pc' = "layers_done"
    /\ UNCHANGED <<CUBE_LENGTH, doc, nextId, call, ret, host, err, log, faces, budget, fi,
                   fam, gi, cutters, crack_items, face_cracks, xi, calls>>

LayersNext == LayersStart \/ LayersPurge \/ LayersCreate \/ LayersFinish

SpecLayers == LayersInit /\ [][LayersNext]_vars

\* C30: after create_layers returns, every layer named in layer_color_dict
\* exists, whichever layer was current before.
C30_DictLayersExist ==
    pc = "layers_done" => Range(call.layer_color_dict) \subseteq layers

=============================================================================
